---- MODULE Spec2Model ----
(***************************************************************************)
(* A model of frappe_factory_bot's BaseFactory (base_factory.py): the      *)
(* class-level entry points build, build_list, create and create_list,     *)
(* the constructor's trait validation, the attributes fold, and the calls  *)
(* made to the external record system (frappe.get_doc, Document.insert)    *)
(* and to _attach_del.  One behaviour is one call made by a test, run      *)
(* statement by statement; every call to a collaborator is appended to     *)
(* `log`.                                                                  *)
(***************************************************************************)
EXTENDS Integers, Sequences, FiniteSets, TLC

(* ---- bounds of the model ---- *)
MaxTraits == 2      \* longest trait sequence a call passes
MaxN == 2           \* largest n given to build_list / create_list
MaxReads == 2       \* how often a test reads instance.attributes on one instance

(* ---- mappings (Python dicts) ---- *)
Empty == [k \in {} |-> ""]

\* {**a, **b}: the keys of both, b's value where both define a key
Merge(a, b) == [k \in (DOMAIN a) \cup (DOMAIN b) |-> IF k \in DOMAIN b THEN b[k] ELSE a[k]]

Range(s) == {s[x] : x \in DOMAIN s}

(* ---- the classes: BaseFactory and the factories a test declares ---- *)
\* The class body of each class, in declaration order, as __dict__ holds it:
\* kind "property" for @property members, "attr" for plain class attributes,
\* "method" for functions, classmethods and staticmethods.
Member(name, kind, value) == [name |-> name, kind |-> kind, value |-> value]

BaseFactoryBody ==
    << Member("build", "method", Empty),
       Member("build_list", "method", Empty),
       Member("create", "method", Empty),
       Member("create_list", "method", Empty),
       Member("__init__", "method", Empty),
       Member("_attach_del", "method", Empty),
       Member("default_attributes", "property", Empty),
       Member("attributes", "property", Empty),
       Member("__del_override__", "method", Empty) >>

\* a concrete factory in the shape of the test suite's factories: its own
\* doctype, default_attributes and two traits that meet on field "a"
ExampleFactoryBody ==
    << Member("doctype", "attr", [v |-> "Test DocType"]),
       Member("default_attributes", "property",
              [name |-> "D", a |-> "a0", doctype |-> "Default DocType"]),
       Member("t1", "property", [a |-> "a1", b |-> "b1"]),
       Member("t2", "property", [a |-> "a2", doctype |-> "Trait DocType"]) >>

\* a factory derived from ExampleFactory: inherits doctype, default_attributes
\* and t1, redeclares t2 and adds t3
ChildFactoryBody ==
    << Member("t2", "property", [b |-> "b2"]),
       Member("t3", "property", [a |-> "a3", c |-> "c3"]) >>

\* a factory that declares no default_attributes of its own
PlainFactoryBody ==
    << Member("doctype", "attr", [v |-> "Plain DocType"]),
       Member("t1", "property", [c |-> "c1", doctype |-> "Trait DocType"]) >>

Factories == {"ExampleFactory", "ChildFactory", "PlainFactory"}

ClassBody(c) ==
    CASE c = "BaseFactory" -> BaseFactoryBody
      [] c = "ExampleFactory" -> ExampleFactoryBody
      [] c = "ChildFactory" -> ChildFactoryBody
      [] c = "PlainFactory" -> PlainFactoryBody

\* the method resolution order of a class (single inheritance)
Mro(c) ==
    CASE c = "BaseFactory" -> << "BaseFactory" >>
      [] c = "ExampleFactory" -> << "ExampleFactory", "BaseFactory" >>
      [] c = "ChildFactory" -> << "ChildFactory", "ExampleFactory", "BaseFactory" >>
      [] c = "PlainFactory" -> << "PlainFactory", "BaseFactory" >>

OwnNames(c) == {ClassBody(c)[x].name : x \in DOMAIN ClassBody(c)}

OwnMember(c, name) ==
    LET x == CHOOSE y \in DOMAIN ClassBody(c) : ClassBody(c)[y].name = name
    IN  ClassBody(c)[x]

\* getattr(self, name): the first class of the MRO whose body declares name
GetAttr(c, name) ==
    LET x == CHOOSE y \in DOMAIN Mro(c) :
                 /\ name \in OwnNames(Mro(c)[y])
                 /\ \A z \in 1..(y - 1) : name \notin OwnNames(Mro(c)[z])
    IN  OwnMember(Mro(c)[x], name).value

\* instance.doctype
Doctype(c) == GetAttr(c, "doctype").v

\* self.default_attributes
default_attributes(c) == GetAttr(c, "default_attributes")

(* ---- BaseFactory.__init__: the valid traits of a class ---- *)
\* the filter without the exclusion of default_attributes
IsTraitAnyProperty(member) == member.kind = "property"

\* isinstance(value, property) and name != "default_attributes"
IsTrait(member) == member.kind = "property" /\ member.name # "default_attributes"

\* the names of the members of a class body that pass IsTrait, in __dict__ order
RECURSIVE TraitsOfBody(_, _)
TraitsOfBody(body, x) ==
    IF x > Len(body) THEN << >>
    ELSE (IF IsTrait(body[x]) THEN << body[x].name >> ELSE << >>) \o TraitsOfBody(body, x + 1)

\* a scan of every class of the MRO (as dir() or inspect.getmembers would
\* give), not of the class's own __dict__ alone
RECURSIVE TraitsOfMro(_, _)
TraitsOfMro(c, x) ==
    IF x > Len(Mro(c)) THEN << >>
    ELSE TraitsOfBody(ClassBody(Mro(c)[x]), 1) \o TraitsOfMro(c, x + 1)

valid_traitsWithInherited(c) == TraitsOfMro(c, 1)

\* the comprehension over self.__class__.__dict__.items()
valid_traits(c) == TraitsOfBody(ClassBody(c), 1)

\* a check that looks at the first requested trait only
IsSubsetFirstOnly(ft, vt) == ft = << >> \/ ft[1] \in Range(vt)

\* set(self.factory_traits).issubset(valid_traits)
IsSubset(ft, vt) == Range(ft) \subseteq Range(vt)

\* the TypeError of __init__: its message interpolates self.factory_traits
\* and valid_traits
NoError == [kind |-> "none", traits |-> << >>, valid |-> << >>]

\* a message with the two lists the wrong way round
TraitErrorSwapped(ft, vt) == [kind |-> "TypeError", traits |-> vt, valid |-> ft]

TraitError(ft, vt) == [kind |-> "TypeError", traits |-> ft, valid |-> vt]

ExternalError(kind) == [kind |-> kind, traits |-> << >>, valid |-> << >>]

(* ---- BaseFactory.attributes: reduce over the traits from the defaults ---- *)
\* the fold with the merge turned round: an earlier trait keeps its value
RECURSIVE ReduceEarlierWins(_, _, _)
ReduceEarlierWins(c, ft, acc) ==
    IF ft = << >> THEN acc
    ELSE ReduceEarlierWins(c, Tail(ft), Merge(GetAttr(c, Head(ft)), acc))

RECURSIVE Reduce(_, _, _)
Reduce(c, ft, acc) ==
    IF ft = << >> THEN acc
    ELSE Reduce(c, Tail(ft), Merge(acc, GetAttr(c, Head(ft))))

attributes(c, ft) == Reduce(c, ft, default_attributes(c))

(* ---- BaseFactory.build: the mapping given to frappe.get_doc ---- *)
\* the literal with "doctype" written first instead of last
GetDocArgDoctypeFirst(c, ft, ov) ==
    Merge(Merge([doctype |-> Doctype(c)], attributes(c, ft)), ov)

GetDocArg(c, ft, ov) ==
    Merge(Merge(attributes(c, ft), ov), [doctype |-> Doctype(c)])

\* overrides.get("flags", {})
FlagsOf(ov) == IF "flags" \in DOMAIN ov THEN ov["flags"] ELSE Empty

\* doctype.flags.update(**...)
FlagsUpdate(flags, ov) == Merge(flags, FlagsOf(ov))

(* ---- the inputs a call draws from ---- *)
TraitNames == {"t1", "t2", "t3", "default_attributes", "doctype", "nope"}

RECURSIVE SeqsUpTo(_, _)
SeqsUpTo(S, k) ==
    IF k = 0 THEN {<< >>}
    ELSE LET shorter == SeqsUpTo(S, k - 1)
         IN  shorter \cup {Append(s, e) : s \in {t \in shorter : Len(t) = k - 1}, e \in S}

TraitSeqs == SeqsUpTo(TraitNames, MaxTraits)

OverrideValue ==
    [a |-> "a9", doctype |-> "Malicious DocType", flags |-> [flag1 |-> "value_1", flag2 |-> "value_2"]]

OverrideMaps == {[k \in ks |-> OverrideValue[k]] : ks \in SUBSET (DOMAIN OverrideValue)}

Ops == {"instantiate", "attributes", "build", "build_list", "create", "create_list"}

ListOps == {"build_list", "create_list"}

Counts == (-1)..MaxN

(* ---- state ---- *)
VARIABLES
    cls,        \* the factory class the call is made on
    op,         \* the entry point called
    n,          \* build_list / create_list: the count argument
    argTraits,  \* *_factory_traits
    argOverrides, \* **overrides
    pc,         \* the statement the call is at
    instance,   \* the factory instance of the current build: factory_traits, overrides
    docs,       \* the records frappe.get_doc has returned, by identity 1..Len(docs)
    cur,        \* the record the current build / create holds (0: none)
    result,     \* the list the comprehension has collected so far
    retval,     \* what the call returned
    raised,     \* the exception that reached the caller
    log         \* every call made to __init__, attributes, get_doc, flags.update, insert, _attach_del

vars == << cls, op, n, argTraits, argOverrides, pc, instance, docs, cur, result, retval, raised, log >>

args == << cls, op, n, argTraits, argOverrides >>

NoInstance == [exists |-> FALSE, factory_traits |-> << >>, overrides |-> Empty, has_overrides |-> FALSE]

NoReturn == [kind |-> "none", doc |-> 0, list |-> << >>, map |-> Empty]

Event(ev, rec, map) == [ev |-> ev, rec |-> rec, map |-> map]

NewDoc(map) == [fields |-> map, flags |-> Empty, inserted |-> FALSE, finalizer |-> FALSE]

Init ==
    /\ cls = "ExampleFactory"
    /\ op = "none"
    /\ n = 0
    /\ argTraits = << >>
    /\ argOverrides = Empty
    /\ pc = "idle"
    /\ instance = NoInstance
    /\ docs = << >>
    /\ cur = 0
    /\ result = << >>
    /\ retval = NoReturn
    /\ raised = NoError
    /\ log = << >>

\* create_list collecting cls.build(...) instead of cls.create(...)
AfterBuildListBuilds(o) == IF o = "create" THEN "insert" ELSE "return"

\* build going on to insert like create does
AfterBuildAlwaysInsert(o) == "insert"

\* the statement after `doctype = cls.build(...)` returns inside the caller
AfterBuild(o) == IF o \in {"create", "create_list"} THEN "insert" ELSE "return"

\* a loop that runs its body once before it looks at n
LoopContinuesAtLeastOnce(done, k) == done = 0 \/ done < k

\* a comprehension that runs once more than range(n) does
LoopContinuesOffByOne(done, k) == done <= k

\* whether the comprehension `for _ in range(n)` runs another iteration
LoopContinues(done, k) == done < k

\* a list entry point that swallows an item's failure and goes on
OnRaiseSkipItem(o) == IF o \in ListOps THEN "loop" ELSE "done"

\* where an exception raised inside an entry point goes: nothing catches it
OnRaise(o) == "done"

\* a test calls one of the entry points
Call ==
    /\ pc = "idle"
    /\ \E c \in Factories, o \in Ops, k \in Counts, ts \in TraitSeqs, ov \in OverrideMaps :
          /\ (o \notin ListOps) => (k = 1)
          /\ (o = "instantiate") => (ov = Empty)
          /\ cls' = c
          /\ op' = o
          /\ n' = k
          /\ argTraits' = ts
          /\ argOverrides' = ov
          /\ pc' = IF o \in ListOps THEN "loop" ELSE "init"
    /\ UNCHANGED << instance, docs, cur, result, retval, raised, log >>

\* build_list / create_list: the head of the list comprehension
ListIter ==
    /\ pc = "loop"
    /\ IF LoopContinues(Len(result), n)
       THEN /\ pc' = "init"
            /\ retval' = retval
       ELSE /\ pc' = "done"
            /\ retval' = [NoReturn EXCEPT !.kind = "list", !.list = result]
    /\ cur' = 0
    /\ instance' = NoInstance
    /\ UNCHANGED << args, docs, result, raised, log >>

\* cls(*_factory_traits): BaseFactory.__init__
Instantiate ==
    /\ pc = "init"
    /\ instance' = [NoInstance EXCEPT !.exists = TRUE, !.factory_traits = argTraits]
    /\ log' = Append(log, Event("__init__", 0, Empty))
    /\ IF ~IsSubset(argTraits, valid_traits(cls))
       THEN /\ raised' = TraitError(argTraits, valid_traits(cls))
            /\ pc' = OnRaise(op)
            /\ retval' = retval
       ELSE /\ raised' = raised
            /\ pc' = CASE op = "instantiate" -> "done"
                       [] op = "attributes" -> "set_overrides"
                       [] OTHER -> "get_doc"
            /\ retval' = IF op = "instantiate"
                         THEN [NoReturn EXCEPT !.kind = "instance"]
                         ELSE retval
    /\ UNCHANGED << args, docs, cur, result >>

\* a test stores overrides on an instance it made: instance.overrides = {...}
SetOverrides ==
    /\ pc = "set_overrides"
    /\ instance' = [instance EXCEPT !.overrides = argOverrides, !.has_overrides = TRUE]
    /\ pc' = "attributes"
    /\ UNCHANGED << args, docs, cur, result, retval, raised, log >>

\* the reads of the attributes property the log holds
Reads(l) == Cardinality({x \in DOMAIN l : l[x].ev = "attributes"})

\* an attributes property that lays the instance's overrides over the fold
ReadAttributesWithOverrides ==
    /\ pc = "attributes"
    /\ LET map == Merge(attributes(cls, instance.factory_traits), instance.overrides)
       IN  /\ log' = Append(log, Event("attributes", 0, map))
           /\ retval' = [NoReturn EXCEPT !.kind = "map", !.map = map]
    /\ pc' = IF Reads(log) + 1 < MaxReads THEN "attributes" ELSE "done"
    /\ UNCHANGED << args, instance, docs, cur, result, raised >>

\* a test reads instance.attributes on an instance it made, MaxReads times
ReadAttributes ==
    /\ pc = "attributes"
    /\ log' = Append(log, Event("attributes", 0, attributes(cls, instance.factory_traits)))
    /\ retval' = [NoReturn EXCEPT !.kind = "map", !.map = attributes(cls, instance.factory_traits)]
    /\ pc' = IF Reads(log) + 1 < MaxReads THEN "attributes" ELSE "done"
    /\ UNCHANGED << args, instance, docs, cur, result, raised >>

\* build: instance.overrides = overrides; frappe.get_doc({...}), which the
\* record system may fail
BuildGetDoc ==
    /\ pc = "get_doc"
    /\ instance' = [instance EXCEPT !.overrides = argOverrides, !.has_overrides = TRUE]
    /\ LET map == GetDocArg(cls, instance.factory_traits, argOverrides)
           read == Event("attributes", 0, attributes(cls, instance.factory_traits))
       IN  \E ok \in BOOLEAN :
              IF ok
              THEN /\ docs' = Append(docs, NewDoc(map))
                   /\ cur' = Len(docs) + 1
                   /\ log' = log \o << read, Event("get_doc", Len(docs) + 1, map) >>
                   /\ pc' = "flags"
                   /\ raised' = raised
              ELSE /\ docs' = docs
                   /\ cur' = cur
                   /\ log' = log \o << read, Event("get_doc", 0, map) >>
                   /\ pc' = OnRaise(op)
                   /\ raised' = ExternalError("ConstructionError")
    /\ UNCHANGED << args, result, retval >>

\* the value an entry point's item hands back: to the caller, or to the list
ItemReturn ==
    IF op \in ListOps
    THEN /\ result' = Append(result, cur)
         /\ retval' = retval
         /\ pc' = "loop"
    ELSE /\ result' = result
         /\ retval' = [NoReturn EXCEPT !.kind = "doc", !.doc = cur]
         /\ pc' = "done"

\* build: doctype.flags.update(**overrides.get("flags", {})); return doctype
BuildFlags ==
    /\ pc = "flags"
    /\ docs' = [docs EXCEPT ![cur].flags = FlagsUpdate(docs[cur].flags, argOverrides)]
    /\ log' = Append(log, Event("flags.update", cur, FlagsOf(argOverrides)))
    /\ IF AfterBuild(op) = "insert"
       THEN /\ pc' = "insert"
            /\ UNCHANGED << result, retval >>
       ELSE ItemReturn
    /\ UNCHANGED << args, instance, cur, raised >>

\* create going on to _attach_del whether or not insert raised (a finally)
CreateInsertThenAlwaysAttach ==
    /\ pc = "insert"
    /\ log' = Append(log, Event("insert", cur, Empty))
    /\ \E ok \in BOOLEAN :
          IF ok
          THEN /\ docs' = [docs EXCEPT ![cur].inserted = TRUE]
               /\ raised' = raised
          ELSE /\ docs' = docs
               /\ raised' = ExternalError("PersistenceError")
    /\ pc' = "attach"
    /\ UNCHANGED << args, instance, cur, result, retval >>

\* create registering the finalizer before it persists
CreateInsertAttachesFirst ==
    /\ pc = "insert"
    /\ log' = log \o << Event("_attach_del", cur, Empty), Event("insert", cur, Empty) >>
    /\ \E ok \in BOOLEAN :
          IF ok
          THEN /\ docs' = [docs EXCEPT ![cur].finalizer = TRUE, ![cur].inserted = TRUE]
               /\ pc' = "attach"
               /\ raised' = raised
          ELSE /\ docs' = [docs EXCEPT ![cur].finalizer = TRUE]
               /\ pc' = "done"
               /\ raised' = ExternalError("PersistenceError")
    /\ UNCHANGED << args, instance, cur, result, retval >>

\* create: doctype.insert(), which the record system may fail
CreateInsert ==
    /\ pc = "insert"
    /\ log' = Append(log, Event("insert", cur, Empty))
    /\ \E ok \in BOOLEAN :
          IF ok
          THEN /\ docs' = [docs EXCEPT ![cur].inserted = TRUE]
               /\ pc' = "attach"
               /\ raised' = raised
          ELSE /\ docs' = docs
               /\ pc' = OnRaise(op)
               /\ raised' = ExternalError("PersistenceError")
    /\ UNCHANGED << args, instance, cur, result, retval >>

\* create: cls._attach_del(doctype); return doctype
CreateAttach ==
    /\ pc = "attach"
    /\ docs' = [docs EXCEPT ![cur].finalizer = TRUE]
    /\ log' = Append(log, Event("_attach_del", cur, Empty))
    /\ ItemReturn
    /\ UNCHANGED << args, instance, cur, raised >>

Next ==
    \/ Call
    \/ ListIter
    \/ Instantiate
    \/ SetOverrides
    \/ ReadAttributes
    \/ BuildGetDoc
    \/ BuildFlags
    \/ CreateInsert
    \/ CreateAttach

Spec == Init /\ [][Next]_vars

(* ==== the claims ==== *)

\* the events of the log of one kind, in order
RECURSIVE EventsOf(_, _)
EventsOf(l, kinds) ==
    IF l = << >> THEN << >>
    ELSE (IF Head(l).ev \in kinds THEN << Head(l) >> ELSE << >>) \o EventsOf(Tail(l), kinds)

GetDocEvents == EventsOf(log, {"get_doc"})

\* every field name a default, a trait or an override of the model uses,
\* and one ("x") that none uses
Fields == {"name", "a", "b", "c", "x", "doctype", "flags"}

\* the valid traits each factory declares in its own class body
DeclaredTraits ==
    [ExampleFactory |-> {"t1", "t2"}, ChildFactory |-> {"t2", "t3"}, PlainFactory |-> {"t1"}]

\* the doctype each factory declares (ChildFactory through ExampleFactory)
DeclaredDoctype ==
    [ExampleFactory |-> "Test DocType", ChildFactory |-> "Test DocType", PlainFactory |-> "Plain DocType"]

\* the record-system calls of a build: the entry points that reach get_doc
BuildOps == {"build", "build_list", "create", "create_list"}

\* the traits of T that define field F, by position
Defining(c, T, F) == {x \in DOMAIN T : F \in DOMAIN GetAttr(c, T[x])}

Last(S) == CHOOSE x \in S : \A y \in S : y <= x

C2_DoctypeForced ==
    \A x \in DOMAIN GetDocEvents :
        /\ op \in BuildOps
        /\ "doctype" \in DOMAIN GetDocEvents[x].map
        /\ GetDocEvents[x].map["doctype"] = DeclaredDoctype[cls]

\* the overrides, a selected trait and the defaults all gave another doctype
C2_Witness ==
    /\ cls = "ExampleFactory"
    /\ "t2" \in Range(argTraits)
    /\ "doctype" \in DOMAIN argOverrides
    /\ argOverrides["doctype"] # DeclaredDoctype[cls]
    /\ op = "create_list"
    /\ retval.kind = "list"
    /\ Len(retval.list) >= 2
    /\ \A x \in DOMAIN retval.list : docs[retval.list[x]].fields["doctype"] = "Test DocType"

\* C3: when the overrides contain the key flags, that key never appears in
\* the mapping passed to the record constructor, and once build has returned
\* every entry of the flags sub-mapping is on the returned record's flags.
C3_FlagsNotForwarded ==
    ("flags" \in DOMAIN argOverrides /\ op = "build" /\ retval.kind = "doc") =>
        /\ \A x \in DOMAIN GetDocEvents : "flags" \notin DOMAIN GetDocEvents[x].map
        /\ "flags" \notin DOMAIN docs[retval.doc].fields
        /\ \A k \in DOMAIN argOverrides["flags"] :
              /\ k \in DOMAIN docs[retval.doc].flags
              /\ docs[retval.doc].flags[k] = argOverrides["flags"][k]

\* the part of C3 the code does keep: the flags entries are on the record
\* build returned
C3_FlagsOnRecord ==
    ("flags" \in DOMAIN argOverrides /\ op = "build" /\ retval.kind = "doc") =>
        \A k \in DOMAIN argOverrides["flags"] :
            /\ k \in DOMAIN docs[retval.doc].flags
            /\ docs[retval.doc].flags[k] = argOverrides["flags"][k]

\* the requested names that are not valid traits of the class
InvalidRequested == {t \in Range(argTraits) : t \notin DeclaredTraits[cls]}

\* __init__ has run at least once in this call
Instantiated == log # << >>

\* C4: instantiating with a trait sequence holding a name that is not a valid
\* trait raises the invalid-trait error before any attribute resolution and,
\* through build or create, before any call to the record constructor or to
\* persist; an empty or fully valid sequence (duplicates included) never raises it.
C4_InvalidTraitRaisesFirst ==
    /\ (InvalidRequested # {} /\ Instantiated) =>
          /\ raised.kind = "TypeError"
          /\ pc = "done"
          /\ retval.kind = "none"
          /\ \A x \in DOMAIN log : log[x].ev = "__init__"
          /\ docs = << >>
    /\ InvalidRequested = {} => raised.kind # "TypeError"

\* create was called with a valid trait followed by an invalid one, and raised
C4_Witness ==
    /\ op = "create"
    /\ cls = "ChildFactory"
    /\ argTraits = << "t3", "t1" >>
    /\ raised.kind = "TypeError"

\* the same valid trait twice went through validation and on to get_doc
C4_WitnessValid ==
    /\ argTraits = << "t1", "t1" >>
    /\ cls = "PlainFactory"
    /\ op = "build"
    /\ retval.kind = "doc"

\* the record-system calls of the log: construction and persistence
RecordCalls == EventsOf(log, {"get_doc", "insert"})

\* C5: a call of build never calls persist; a call of create that completes
\* calls the record constructor exactly once and then persist exactly once,
\* on the constructed record, in that order.
C5_BuildNeverPersists ==
    /\ op = "build" =>
          /\ EventsOf(log, {"insert"}) = << >>
          /\ \A d \in DOMAIN docs : ~docs[d].inserted
    /\ (op = "create" /\ pc = "done" /\ raised.kind = "none") =>
          /\ retval.kind = "doc"
          /\ Len(RecordCalls) = 2
          /\ RecordCalls[1].ev = "get_doc"
          /\ RecordCalls[2].ev = "insert"
          /\ RecordCalls[1].rec = retval.doc
          /\ RecordCalls[2].rec = retval.doc
          /\ docs[retval.doc].inserted

\* a create ran to completion
C5_Witness ==
    /\ op = "create"
    /\ pc = "done"
    /\ retval.kind = "doc"
    /\ docs[retval.doc].inserted

\* a build ran to completion
C5_WitnessBuild ==
    /\ op = "build"
    /\ pc = "done"
    /\ retval.kind = "doc"

\* the position in the log of the call `ev` made on record r (0: no such call)
Pos(ev, r) ==
    IF \E x \in DOMAIN log : log[x].ev = ev /\ log[x].rec = r
    THEN CHOOSE x \in DOMAIN log : log[x].ev = ev /\ log[x].rec = r
    ELSE 0

\* the records of the events of a log, in order
Recs(l) == [x \in DOMAIN l |-> l[x].rec]

\* C6: for n >= 0 and valid traits, build_list returns exactly n records in
\* the order the record constructor produced them, calls the record
\* constructor exactly n times with the same mapping each time, and never
\* calls persist.
C6_BuildList ==
    (op = "build_list" /\ n >= 0) =>
        /\ EventsOf(log, {"insert", "_attach_del"}) = << >>
        /\ \A d \in DOMAIN docs : ~docs[d].inserted
        /\ \A x, y \in DOMAIN GetDocEvents : GetDocEvents[x].map = GetDocEvents[y].map
        /\ (pc = "done" /\ raised.kind = "none") =>
              /\ retval.kind = "list"
              /\ Len(retval.list) = n
              /\ Len(GetDocEvents) = n
              /\ retval.list = Recs(GetDocEvents)
              /\ \A x \in DOMAIN retval.list :
                    docs[retval.list[x]].fields = GetDocEvents[x].map

\* build_list returned two records built from a trait and an override
C6_Witness ==
    /\ op = "build_list"
    /\ n = 2
    /\ argTraits # << >>
    /\ "a" \in DOMAIN argOverrides
    /\ pc = "done"
    /\ retval.kind = "list"
    /\ Len(retval.list) = 2

\* C7: create_list performs its create calls strictly one after another: for
\* i < j the construction, persistence and finalizer registration of record i
\* all happen before the construction of record j, so persistence order and
\* finalizer registration order equal the order of the returned sequence,
\* which has length n.
C7_CreateListSequential ==
    op = "create_list" =>
        /\ \A r1, r2 \in DOMAIN docs :
              r1 < r2 =>
                  /\ 0 < Pos("get_doc", r1)
                  /\ Pos("get_doc", r1) < Pos("insert", r1)
                  /\ Pos("insert", r1) < Pos("_attach_del", r1)
                  /\ Pos("_attach_del", r1) < Pos("get_doc", r2)
                  /\ docs[r1].inserted
                  /\ docs[r1].finalizer
        /\ (pc = "done" /\ raised.kind = "none" /\ n >= 0) =>
              /\ retval.kind = "list"
              /\ Len(retval.list) = n
              /\ Recs(EventsOf(log, {"get_doc"})) = retval.list
              /\ Recs(EventsOf(log, {"insert"})) = retval.list
              /\ Recs(EventsOf(log, {"_attach_del"})) = retval.list

\* create_list returned two records
C7_Witness ==
    /\ op = "create_list"
    /\ n = 2
    /\ pc = "done"
    /\ retval.kind = "list"
    /\ Len(retval.list) = 2
    /\ docs[2].finalizer

\* the item of a list call that was under way when the call ended
FailedItem == Len(result) + 1

\* C8: when the k-th item of a build_list or create_list call fails
\* (construction or persistence raises), the error reaches the caller, nothing
\* is attempted for the items after k, the items before k stay constructed
\* (for create_list: persisted, finalizer attached), and no partial result
\* list is returned.
C8_ListAbortsOnFailure ==
    (op \in ListOps /\ raised.kind \in {"ConstructionError", "PersistenceError"}) =>
        /\ pc = "done"
        /\ retval = NoReturn
        /\ Len(GetDocEvents) = FailedItem
        /\ Len(EventsOf(log, {"insert"})) \in
              (IF op = "build_list" THEN {0}
               ELSE IF raised.kind = "PersistenceError" THEN {FailedItem}
               ELSE {FailedItem - 1})
        /\ log[Len(log)].ev = (IF raised.kind = "PersistenceError" THEN "insert" ELSE "get_doc")
        /\ \A k \in 1..(FailedItem - 1) :
              /\ k \in DOMAIN docs
              /\ docs[k].fields = GetDocEvents[k].map
              /\ op = "create_list" => docs[k].inserted /\ docs[k].finalizer
        /\ Len(docs) = (IF raised.kind = "PersistenceError" THEN FailedItem ELSE FailedItem - 1)

\* the second item of a create_list failed to persist after the first went through
C8_Witness ==
    /\ op = "create_list"
    /\ raised.kind = "PersistenceError"
    /\ FailedItem = 2
    /\ docs[1].inserted
    /\ docs[1].finalizer

\* the second item of a build_list failed to construct
C8_WitnessBuild ==
    /\ op = "build_list"
    /\ raised.kind = "ConstructionError"
    /\ FailedItem = 2

\* C9 as stated: the error of a failed trait validation names the invalid
\* subset of the requested traits (the requested names that are not valid
\* traits) and the full set of valid traits of the class.
C9_NamesInvalidSubset ==
    raised.kind = "TypeError" =>
        /\ Range(raised.traits) = InvalidRequested
        /\ Range(raised.valid) = DeclaredTraits[cls]

\* C9 amended: the error of a failed trait validation names the whole
\* requested trait sequence, valid names included (so every invalid name is
\* in it), and the full list of valid traits of the class.
C9_NamesRequestedAndValid ==
    raised.kind = "TypeError" =>
        /\ raised.traits = argTraits
        /\ InvalidRequested # {}
        /\ InvalidRequested \subseteq Range(raised.traits)
        /\ Range(raised.valid) = DeclaredTraits[cls]
        /\ Len(raised.valid) = Cardinality(DeclaredTraits[cls])

\* validation failed on a request that mixes a valid and an invalid name
C9_Witness ==
    /\ raised.kind = "TypeError"
    /\ cls = "ExampleFactory"
    /\ argTraits = << "nope", "t1" >>
    /\ raised.traits = << "nope", "t1" >>

\* the properties a class declares in its own body
OwnProperties(c) == {m.name : m \in {k \in Range(ClassBody(c)) : k.kind = "property"}}

\* every member name of the modelled classes, and the names calls request
AllNames == TraitNames \cup UNION {OwnNames(c) : c \in Factories \cup {"BaseFactory"}}

\* C10: a name is accepted as a trait by a factory class if and only if it is
\* a property declared by that factory class other than default_attributes;
\* the name default_attributes itself is always rejected.
C10_AcceptedIffTrait ==
    /\ \A name \in AllNames :
          IsSubset(<< name >>, valid_traits(cls)) <=>
              (name \in OwnProperties(cls) /\ name # "default_attributes")
    /\ Instantiated =>
          (raised.kind # "TypeError" <=>
              \A x \in DOMAIN argTraits :
                  argTraits[x] \in OwnProperties(cls) /\ argTraits[x] # "default_attributes")
    /\ ("default_attributes" \in Range(argTraits) /\ Instantiated) => raised.kind = "TypeError"

\* default_attributes, a property ExampleFactory declares itself, was requested
\* as a trait and rejected
C10_Witness ==
    /\ cls = "ExampleFactory"
    /\ argTraits = << "default_attributes" >>
    /\ "default_attributes" \in OwnProperties(cls)
    /\ raised.kind = "TypeError"

\* the calls of the log other than the attributes reads, by name, in order
RECURSIVE Steps(_)
Steps(l) ==
    IF l = << >> THEN << >>
    ELSE (IF Head(l).ev = "attributes" THEN << >> ELSE << Head(l).ev >>) \o Steps(Tail(l))

CreateOrder == << "__init__", "get_doc", "flags.update", "insert", "_attach_del" >>

\* the flags entries of the overrides are on record r
FlagsApplied(r) ==
    \A k \in DOMAIN FlagsOf(argOverrides) :
        k \in DOMAIN docs[r].flags /\ docs[r].flags[k] = argOverrides["flags"][k]

\* C11: within one create call the steps happen in this order: trait
\* validation, record construction, application of the override flags to the
\* record's flags, persist, finalizer registration, return; so the flags are
\* on the record when persist runs, and the finalizer is attached only after
\* persist has completed.
C11_CreateOrder ==
    op = "create" =>
        /\ Len(Steps(log)) <= Len(CreateOrder)
        /\ Steps(log) = SubSeq(CreateOrder, 1, Len(Steps(log)))
        /\ pc = "insert" => FlagsApplied(cur)
        /\ \A r \in DOMAIN docs :
              /\ Pos("insert", r) # 0 => FlagsApplied(r)
              /\ docs[r].finalizer => docs[r].inserted /\ Pos("insert", r) < Pos("_attach_del", r)
        /\ retval.kind = "doc" =>
              /\ pc = "done"
              /\ Steps(log) = CreateOrder
              /\ docs[retval.doc].inserted
              /\ docs[retval.doc].finalizer

\* a create given flags in its overrides is about to persist a record that
\* already carries them
C11_Witness ==
    /\ op = "create"
    /\ pc = "insert"
    /\ "flags" \in DOMAIN argOverrides
    /\ docs[cur].flags = argOverrides["flags"]
    /\ ~docs[cur].inserted

\* a create given flags ran through all five steps and returned
C11_WitnessDone ==
    /\ op = "create"
    /\ "flags" \in DOMAIN argOverrides
    /\ retval.kind = "doc"
    /\ Steps(log) = CreateOrder

\* the calls of one kind the log holds for record r
CallsOn(ev, r) == {x \in DOMAIN log : log[x].ev = ev /\ log[x].rec = r}

\* C12: when persist raises during create, the error is propagated unmodified
\* to the caller after exactly one persist attempt (no retry), no finalizer is
\* registered on the constructed record, and no record is returned; in every
\* reachable state a record carries the finalizer only if its persist call
\* completed, so records from build and build_list never carry one.
C12_PersistFailure ==
    /\ (op = "create" /\ raised.kind = "PersistenceError") =>
          /\ raised = ExternalError("PersistenceError")
          /\ pc = "done"
          /\ retval = NoReturn
          /\ Len(EventsOf(log, {"insert"})) = 1
          /\ log[Len(log)].ev = "insert"
          /\ log[Len(log)].rec = cur
          /\ EventsOf(log, {"_attach_del"}) = << >>
          /\ ~docs[cur].inserted
          /\ ~docs[cur].finalizer
    /\ \A r \in DOMAIN docs :
          /\ Cardinality(CallsOn("insert", r)) <= 1
          /\ Cardinality(CallsOn("_attach_del", r)) <= 1
          /\ docs[r].finalizer => docs[r].inserted
          /\ docs[r].finalizer <=> CallsOn("_attach_del", r) # {}
    /\ op \in {"build", "build_list"} =>
          \A r \in DOMAIN docs : ~docs[r].finalizer /\ CallsOn("_attach_del", r) = {}

\* a create whose persist raised
C12_Witness ==
    /\ op = "create"
    /\ raised.kind = "PersistenceError"
    /\ pc = "done"
    /\ Len(docs) = 1
    /\ ~docs[1].finalizer

\* a build_list returned records, none with a finalizer
C12_WitnessBuildList ==
    /\ op = "build_list"
    /\ retval.kind = "list"
    /\ Len(retval.list) >= 2
    /\ \A r \in DOMAIN docs : ~docs[r].finalizer

\* the left fold written by position: the defaults, then the first k traits
\* laid over them one after another
RECURSIVE LeftFold(_, _, _)
LeftFold(c, T, k) ==
    IF k = 0 THEN default_attributes(c)
    ELSE Merge(LeftFold(c, T, k - 1), GetAttr(c, T[k]))

AttributeReads == EventsOf(log, {"attributes"})

\* C13: the attributes property is a pure left fold over the selected traits
\* starting from default_attributes: it makes no call to the record
\* constructor or to persist, leaves the instance's trait sequence and
\* overrides unchanged, does not depend on the overrides, and returns the same
\* mapping each time it is read on the same instance; with no traits it equals
\* default_attributes.
C13_AttributesPureFold ==
    /\ \A x \in DOMAIN AttributeReads :
          /\ AttributeReads[x].map = LeftFold(cls, argTraits, Len(argTraits))
          /\ AttributeReads[x].map = AttributeReads[1].map
          /\ argTraits = << >> => AttributeReads[x].map = default_attributes(cls)
    /\ op = "attributes" =>
          /\ docs = << >>
          /\ \A x \in DOMAIN log : log[x].ev \in {"__init__", "attributes"}
          /\ pc \in {"attributes", "done"} /\ raised.kind = "none" =>
                /\ instance.factory_traits = argTraits
                /\ instance.overrides = argOverrides
                /\ instance.has_overrides
          /\ retval.kind = "map" => retval.map = LeftFold(cls, argTraits, Len(argTraits))
          /\ (pc = "done" /\ raised.kind = "none") => Len(AttributeReads) = MaxReads

\* attributes was read twice on an instance with two traits and with
\* overrides stored on it that name a field the traits define
C13_Witness ==
    /\ op = "attributes"
    /\ cls = "ExampleFactory"
    /\ argTraits = << "t1", "t2" >>
    /\ "a" \in DOMAIN instance.overrides
    /\ Len(AttributeReads) >= 2
    /\ AttributeReads[2].map["a"] = "a2"
    /\ AttributeReads[2].map["b"] = "b1"

\* the properties a class inherits and does not redeclare, default_attributes aside
InheritedProperties(c) ==
    {name \in UNION {OwnProperties(Mro(c)[x]) : x \in 2..Len(Mro(c))} :
        name \notin OwnNames(c) /\ name # "default_attributes"}

\* C14: the valid-trait set of a factory class is computed only from the
\* properties declared in that class's own body, so a trait declared on a
\* parent factory and inherited by a subclass that does not redeclare it is
\* rejected with the invalid-trait error when requested through the subclass,
\* while the same name is accepted through the parent.
C14_InheritedTraitRejected ==
    /\ Range(valid_traits(cls)) = DeclaredTraits[cls]
    /\ \A name \in InheritedProperties(cls) : ~IsSubset(<< name >>, valid_traits(cls))
    /\ (Instantiated /\ Range(argTraits) \cap InheritedProperties(cls) # {}) =>
          /\ raised.kind = "TypeError"
          /\ Range(raised.valid) \cap InheritedProperties(cls) = {}
          /\ docs = << >>
    /\ (cls = "ChildFactory" /\ "t1" \in Range(argTraits) /\ Instantiated) =>
          raised.kind = "TypeError"
    /\ (cls = "ExampleFactory" /\ Range(argTraits) \subseteq {"t1"}) =>
          raised.kind # "TypeError"

\* t1, which ChildFactory inherits from ExampleFactory, was requested through
\* ChildFactory.build and rejected
C14_Witness ==
    /\ cls = "ChildFactory"
    /\ op = "build"
    /\ argTraits = << "t1" >>
    /\ "t1" \in InheritedProperties(cls)
    /\ raised.kind = "TypeError"
    /\ raised.valid = << "t2", "t3" >>

\* the same name requested through the parent was accepted and used
C14_WitnessParent ==
    /\ cls = "ExampleFactory"
    /\ op = "build"
    /\ argTraits = << "t1" >>
    /\ retval.kind = "doc"
    /\ docs[retval.doc].fields["b"] = "b1"

\* C15: build_list and create_list called with n <= 0 return an empty
\* sequence without instantiating the factory, so no trait validation runs
\* and no error is raised even when the trait names given are invalid; no
\* record is constructed or persisted.
C15_EmptyListSkipsValidation ==
    (op \in ListOps /\ n <= 0) =>
        /\ pc \in {"loop", "done"}
        /\ log = << >>
        /\ ~instance.exists
        /\ raised = NoError
        /\ docs = << >>
        /\ pc = "done" => retval = [NoReturn EXCEPT !.kind = "list"]

\* create_list(-1, ...) with a name that is no trait returned the empty list
C15_Witness ==
    /\ op = "create_list"
    /\ n = -1
    /\ InvalidRequested # {}
    /\ pc = "done"
    /\ retval.kind = "list"
    /\ retval.list = << >>

\* build_list(0, ...) with a name that is no trait returned the empty list
C15_WitnessZero ==
    /\ op = "build_list"
    /\ n = 0
    /\ "nope" \in Range(argTraits)
    /\ pc = "done"
    /\ retval.list = << >>
    /\ retval.kind = "list"

====
